---- MODULE Spec2Model ----
(***************************************************************************)
(* A model of specialist.py: the capture registry CODE, walk_code,         *)
(* score_instruction, the sweep of parse, the character walk of view and   *)
(* the deferred exception of main.                                         *)
(*                                                                         *)
(* Python values are represented as follows.                               *)
(*   None (for an object)   the empty tuple <<>>; an object x that may be  *)
(*                          None is <<x>>                                  *)
(*   None (for an int)      NoneInt                                        *)
(*   a str                  a tuple of one-character strings; an opname    *)
(*                          is a tuple of its words and its "_" separators *)
(*   a (line, column) pair  a 2-tuple of integers, ordered as Python       *)
(*                          orders tuples                                  *)
(*   Stats                  a record of its three integer fields           *)
(***************************************************************************)
EXTENDS Integers, Sequences, FiniteSets, TLC

\* ------------------------------------------------------------------ bounds
\* Largest source line an instruction may carry.
MaxLine == 1
\* Instructions decoded during one parse (over all units walked).
MaxInstr == 2
\* Characters of the source file viewed.
MaxText == 3
\* Top-level units the target executes after its own, and the versions (the
\* contents at the time of an execution) a file goes through.
MaxExec == 2
MaxVersion == 2
\* Instructions of the viewed module after its RESUME.
MaxViewInstr == 1

\* ------------------------------------------------------- module constants
NoneInt == -1
None == <<>>

\* sys.maxsize; only compared, never computed with.  The value is the largest
\* 32-bit integer and stands for 2^63 - 1.
sys_maxsize == 2147483647

FIRST_POSTION == <<1, 0>>
LAST_POSITION == <<sys_maxsize, 0>>

\* Tuple order of Python on (line, column) pairs.
PosLess(a, b) == a[1] < b[1] \/ (a[1] = b[1] /\ a[2] < b[2])
PosLeq(a, b) == a = b \/ PosLess(a, b)

\* ------------------------------------------------------------------ Stats
Stats(s, a, u) == [specialized |-> s, adaptive |-> a, unquickened |-> u]
StatsZero == Stats(0, 0, 0)

StatsAdd(x, y) ==
    Stats(x.specialized + y.specialized,
          x.adaptive + y.adaptive,
          x.unquickened + y.unquickened)

StatsSub(x, y) ==
    Stats(x.specialized - y.specialized,
          x.adaptive - y.adaptive,
          x.unquickened - y.unquickened)

\* ----------------------------------------------------------------- opnames
\* Names of opcode._specialized_instructions (CPython 3.11) used here.
BINARY_OP_ADAPTIVE == <<"BINARY", "_", "OP", "_", "ADAPTIVE">>
BINARY_OP_ADD_INT == <<"BINARY", "_", "OP", "_", "ADD", "_", "INT">>
LOAD_FAST__LOAD_CONST == <<"LOAD", "_", "FAST", "_", "_", "LOAD", "_", "CONST">>
\* Names that are not in it.
BINARY_OP == <<"BINARY", "_", "OP">>
LOAD_CONST == <<"LOAD", "_", "CONST">>

SPECIALIZED_INSTRUCTIONS ==
    {BINARY_OP_ADAPTIVE, BINARY_OP_ADD_INT, LOAD_FAST__LOAD_CONST}

OpNames == SPECIALIZED_INSTRUCTIONS \cup {BINARY_OP, LOAD_CONST}

\* opname.endswith("_ADAPTIVE")
EndsWithAdaptive(opname) ==
    /\ Len(opname) >= 2
    /\ opname[Len(opname) - 1] = "_"
    /\ opname[Len(opname)] = "ADAPTIVE"

\* "__" in instruction.opname
is_superinstruction(instruction) ==
    \E i \in 1..(Len(instruction.opname) - 1) :
        instruction.opname[i] = "_" /\ instruction.opname[i + 1] = "_"

Instruction(opname, jump) == [opname |-> opname, is_jump_target |-> jump]

Instructions == {Instruction(o, j) : o \in OpNames, j \in BOOLEAN}

\* The instructions parse is given: is_jump_target is read for the opnames
\* outside SPECIALIZED_INSTRUCTIONS only.
ParseInstructions ==
    {Instruction(o, FALSE) : o \in SPECIALIZED_INSTRUCTIONS \cup {LOAD_CONST}}
    \cup {Instruction(LOAD_CONST, TRUE)}

\* A variant that ignores is_jump_target in the fusion rule.
score_instruction_NoJumpCheck(instruction, previous) ==
    IF instruction.opname \in SPECIALIZED_INSTRUCTIONS
    THEN IF EndsWithAdaptive(instruction.opname)
         THEN Stats(0, 1, 0)
         ELSE Stats(1, 0, 0)
    ELSE IF previous # None /\ is_superinstruction(previous[1])
         THEN Stats(1, 0, 0)
         ELSE Stats(0, 0, 1)

score_instruction(instruction, previous) ==
    IF instruction.opname \in SPECIALIZED_INSTRUCTIONS
    THEN IF EndsWithAdaptive(instruction.opname)
         THEN Stats(0, 1, 0)
         ELSE Stats(1, 0, 0)
    ELSE IF /\ previous # None
            /\ is_superinstruction(previous[1])
            /\ ~instruction.is_jump_target
         THEN Stats(1, 0, 0)
         ELSE Stats(0, 0, 1)

\* ------------------------------------------------------------ code objects
\* A constant of a code object: another code object or some other object.
Obj == [type |-> "object"]
Code(name, consts) == [type |-> "code", co_name |-> name, co_consts |-> consts]

\* The code trees parsed: a module alone, a module with one function, a
\* module with two functions, a module whose function holds a nested function.
Trees ==
    { Code("<module>", <<Obj>>),
      Code("<module>", <<Obj, Code("f", <<Obj>>)>>),
      Code("<module>", <<Code("f", <<Obj>>), Obj, Code("g", <<>>)>>),
      Code("<module>", <<Obj, Code("f", <<Code("g", <<Obj>>)>>)>>) }

RECURSIVE walk_code(_)
RECURSIVE WalkConsts(_)
walk_code(code) == <<code>> \o WalkConsts(code.co_consts)

WalkConsts(consts) ==
    IF consts = <<>> THEN <<>>
    ELSE (IF Head(consts).type = "code" THEN walk_code(Head(consts)) ELSE <<>>)
         \o WalkConsts(Tail(consts))

\* -------------------------------------------------------------- positions
\* What co_positions() gives: (lineno, end_lineno, col_offset, end_col_offset).
\* A span never ends before it starts, and may be empty (the RESUME of a
\* function is at (l, l, 0, 0)).  In CPython 3.11 the RESUME of a module is at
\* (0, 1, 0, 0): line 0 occurs, in that position only.
Coordinates == {<<1, 1>>} \cup {<<l, 0>> : l \in 1..MaxLine}

ModuleResumePosition == <<0, 1, 0, 0>>

ResolvedPositions ==
    { p \in (1..MaxLine) \X (1..MaxLine) \X (0..1) \X (0..1) :
        /\ <<p[1], p[3]>> \in Coordinates
        /\ <<p[2], p[4]>> \in Coordinates
        /\ PosLeq(<<p[1], p[3]>>, <<p[2], p[4]>>) }
    \cup {ModuleResumePosition}

UnresolvedPositions ==
    { <<NoneInt, 1, 0, 1>>, <<1, NoneInt, 0, 1>>, <<1, 1, NoneInt, 1>>,
      <<1, 1, 0, NoneInt>>, <<NoneInt, NoneInt, NoneInt, NoneInt>> }

Positions == ResolvedPositions \cup UnresolvedPositions


\* ------------------------------------------------------------------ state
VARIABLES
    pc,          \* where the program is
    code,        \* the code object given to parse
    walk,        \* walk_code(code): the units not yet yielded
    child,       \* the unit being decoded (None before the first)
    nDecoded,    \* instructions decoded so far, over all units
    nChild,      \* instructions decoded so far in child
    previous,    \* parse's local previous
    instruction, \* parse's loop variable (None before the first)
    resolved,    \* history: the last position had all four coordinates
    events,      \* parse's events: (line, column) -> Stats
    stats,       \* parse's local stats
    idx,         \* the pair of sorted(events.items()) the sweep is at
    emitted,     \* the SourceChunks yielded so far, in order
    obs,         \* history: the scored observations, as a bag
    instrUnit,   \* history: co_name of the unit instruction was decoded in
    file,        \* the text of the file at path, a tuple of characters
    chunks,      \* what parse(code) will yield, in order
    parserIdx,   \* how many chunks next(parser) has returned
    chunk,       \* view's local chunk
    lineno,      \* line of the character the loops are at (from 1)
    col_offset,  \* its index in the line (from 0)
    group,       \* view's local group
    writer,      \* the HTMLWriter
    page,        \* what browse was given
    runs,        \* history: every call of writer.add, as [source, stats, at]
    groupAt,     \* history: the (lineno, col_offset) of the characters of group
    CODE,        \* the registry: a set of code objects
    args,        \* parse_args(): [kind, source, targets]
    caught,      \* what catch_exceptions gathered
    path,        \* main's local path (None for a module without a file)
    paths,       \* main's local paths
    viewIdx,     \* the element of paths the last loop of main is at
    viewed,      \* history: the paths whose view was rendered
    raised,      \* the exception main ended with (None: it returned)
    found,       \* what the last get_code_for_path returned
    foundPath,   \* the path it was called with
    captureLog,  \* history: the code objects the hook recorded, in order
    nExec        \* top-level executions of the target after its own

parseLocals ==
    <<code, walk, child, nDecoded, nChild, previous, instruction, resolved,
      events, stats, idx, emitted, obs, instrUnit>>

viewVars ==
    <<file, chunks, parserIdx, chunk, lineno, col_offset, group, writer, page,
      runs, groupAt>>

mainVars ==
    <<CODE, args, caught, path, paths, viewIdx, viewed, raised, found,
      foundPath, captureLog, nExec>>

vars == <<pc, parseLocals, viewVars, mainVars>>

\* ------------------------------------------------------------------ parse
\* d[k] += s on a collections.defaultdict(Stats): a missing key is created.
DefaultGet(d, k) == IF k \in DOMAIN d THEN d[k] ELSE StatsZero

EventsAdd(d, k, s) ==
    [x \in (DOMAIN d) \cup {k} |-> IF x = k THEN StatsAdd(DefaultGet(d, k), s) ELSE d[x]]

EventsSub(d, k, s) ==
    [x \in (DOMAIN d) \cup {k} |-> IF x = k THEN StatsSub(DefaultGet(d, k), s) ELSE d[x]]

\* events after lines 200-204.
InitialEvents == [k \in {FIRST_POSTION, LAST_POSITION} |-> StatsZero]

IsUnresolved(pos) ==
    pos[1] = NoneInt \/ pos[2] = NoneInt \/ pos[3] = NoneInt \/ pos[4] = NoneInt

\* A variant of the loop body whose skip leaves previous alone.
ParseStep_SkipKeepsPrevious(st, instr, pos) ==
    IF IsUnresolved(pos)
    THEN [events |-> st.events, previous |-> st.previous, stats |-> st.stats]
    ELSE LET s == score_instruction(instr, st.previous)
         IN [events |-> EventsSub(EventsAdd(st.events, <<pos[1], pos[3]>>, s),
                                  <<pos[2], pos[4]>>, s),
             previous |-> <<instr>>,
             stats |-> s]

\* A variant of the loop body that never registers the end of a span.
ParseStep_NoStop(st, instr, pos) ==
    IF IsUnresolved(pos)
    THEN [events |-> st.events, previous |-> <<instr>>, stats |-> st.stats]
    ELSE LET s == score_instruction(instr, st.previous)
         IN [events |-> EventsAdd(st.events, <<pos[1], pos[3]>>, s),
             previous |-> <<instr>>,
             stats |-> s]

\* One turn of the inner loop of parse on the locals st = [events, previous,
\* stats], for the instruction instr whose position is pos.
ParseStep(st, instr, pos) ==
    IF IsUnresolved(pos)
    THEN [events |-> st.events, previous |-> <<instr>>, stats |-> st.stats]
    ELSE LET s == score_instruction(instr, st.previous)
         IN [events |-> EventsSub(EventsAdd(st.events, <<pos[1], pos[3]>>, s),
                                  <<pos[2], pos[4]>>, s),
             previous |-> <<instr>>,
             stats |-> s]

\* A variant of the outer loop that starts every unit with previous = None.
PreviousAtUnitStart_Reset(prev) == None

\* previous when the outer loop takes the next unit: it is assigned before
\* the loop and in the inner loop only.
PreviousAtUnitStart(prev) == prev

\* sorted(events.items()): the keys in tuple order (the keys are distinct, so
\* the values never decide the order).
RECURSIVE SortKeys(_)
SortKeys(S) ==
    IF S = {} THEN <<>>
    ELSE LET m == CHOOSE x \in S : \A y \in S : PosLeq(x, y)
         IN <<m>> \o SortKeys(S \ {m})

\* A variant that drops the coordinates whose deltas cancel.
SortedItems_NonZero(d) ==
    SortKeys({k \in DOMAIN d :
                 k \in {FIRST_POSTION, LAST_POSITION} \/ d[k] # StatsZero})

SortedItems(d) == SortKeys(DOMAIN d)

SourceChunk(start, stop, st) == [start |-> start, stop |-> stop, stats |-> st]

\* The bag of observations with one more [start, stop, stats].
ObsAdd(b, o) ==
    [x \in (DOMAIN b) \cup {o} |-> IF x = o THEN (IF o \in DOMAIN b THEN b[o] ELSE 0) + 1 ELSE b[x]]

EmptyBag == [x \in {} |-> 0]

ParseInit ==
    /\ pc = "walk"
    /\ code \in Trees
    /\ walk = walk_code(code)
    /\ child = None
    /\ nDecoded = 0
    /\ nChild = 0
    /\ previous = None
    /\ instruction = None
    /\ resolved = TRUE
    /\ events = InitialEvents
    /\ stats = StatsZero
    /\ idx = 0
    /\ emitted = <<>>
    /\ obs = EmptyBag
    /\ instrUnit = ""

\* for child in walk_code(code): the generator yields the next unit.
ParseNextChild ==
    /\ UNCHANGED <<viewVars, mainVars>>
    /\ pc = "walk"
    /\ walk # <<>>
    /\ child' = <<Head(walk)>>
    /\ walk' = Tail(walk)
    /\ nChild' = 0
    /\ previous' = PreviousAtUnitStart(previous)
    /\ pc' = "decode"
    /\ UNCHANGED <<code, nDecoded, instruction, resolved, events, stats, idx,
                   emitted, obs, instrUnit>>

\* for instruction in dis.get_instructions(child, adaptive=True): one turn.
\* The instruction and fixed_positions[instruction.offset // 2] are inputs.
\* MaxInstr leaves one instruction for every unit still to be walked.
ParseInstruction ==
    /\ UNCHANGED <<viewVars, mainVars>>
    /\ pc = "decode"
    /\ nDecoded + Len(walk) < MaxInstr
    /\ \E instr \in ParseInstructions, pos \in Positions :
          LET st == ParseStep([events |-> events, previous |-> previous,
                               stats |-> stats], instr, pos)
          IN /\ instruction' = <<instr>>
             /\ resolved' = ~IsUnresolved(pos)
             /\ events' = st.events
             /\ previous' = st.previous
             /\ stats' = st.stats
             /\ obs' = IF IsUnresolved(pos) THEN obs
                       ELSE ObsAdd(obs, [start |-> <<pos[1], pos[3]>>,
                                         stop |-> <<pos[2], pos[4]>>,
                                         stats |-> st.stats])
    /\ nDecoded' = nDecoded + 1
    /\ nChild' = nChild + 1
    /\ instrUnit' = child[1].co_name
    /\ UNCHANGED <<pc, code, walk, child, idx, emitted>>

\* The unit's instructions are exhausted (every code object has at least one).
ParseChildDone ==
    /\ UNCHANGED <<viewVars, mainVars>>
    /\ pc = "decode"
    /\ nChild >= 1
    /\ pc' = "walk"
    /\ UNCHANGED <<code, walk, child, nDecoded, nChild, previous, instruction,
                   resolved, events, stats, idx, emitted, obs, instrUnit>>

\* walk_code is exhausted: stats = Stats(), and the sweep begins.
ParseSweepStart ==
    /\ UNCHANGED <<viewVars, mainVars>>
    /\ pc = "walk"
    /\ walk = <<>>
    /\ stats' = StatsZero
    /\ idx' = 1
    /\ pc' = "sweep"
    /\ UNCHANGED <<code, walk, child, nDecoded, nChild, previous, instruction,
                   resolved, events, emitted, obs, instrUnit>>

\* One turn of the loop over itertools.pairwise(sorted(events.items())).
ParseYield ==
    /\ UNCHANGED <<viewVars, mainVars>>
    /\ pc = "sweep"
    /\ LET keys == SortedItems(events)
       IN /\ idx < Len(keys)
          /\ stats' = StatsAdd(stats, events[keys[idx]])
          /\ emitted' = Append(emitted, SourceChunk(keys[idx], keys[idx + 1], stats'))
    /\ idx' = idx + 1
    /\ UNCHANGED <<pc, code, walk, child, nDecoded, nChild, previous,
                   instruction, resolved, events, obs, instrUnit>>

\* pairwise is exhausted: the generator returns.
ParseReturn ==
    /\ UNCHANGED <<viewVars, mainVars>>
    /\ pc = "sweep"
    /\ idx >= Len(SortedItems(events))
    /\ pc' = "parsed"
    /\ UNCHANGED <<code, walk, child, nDecoded, nChild, previous, instruction,
                   resolved, events, stats, idx, emitted, obs, instrUnit>>

ParseNext ==
    \/ ParseNextChild
    \/ ParseInstruction
    \/ ParseChildDone
    \/ ParseSweepStart
    \/ ParseYield
    \/ ParseReturn



\* ------------------------------------------------------ properties of parse
Contains(start, stop, p) == PosLeq(start, p) /\ PosLess(p, stop)

\* Coordinates probed: the registered ones and some between and after them.
Probes == {<<0, 0>>} \cup ((1..(MaxLine + 1)) \X (0..2))

RECURSIVE SumOver(_, _, _)
\* The sum of the Stats of the observations of bag b among S that contain p.
SumOver(b, S, p) ==
    IF S = {} THEN StatsZero
    ELSE LET o == CHOOSE x \in S : TRUE
             rest == SumOver(b, S \ {o}, p)
         IN IF Contains(o.start, o.stop, p)
            THEN Stats(rest.specialized + b[o] * o.stats.specialized,
                       rest.adaptive + b[o] * o.stats.adaptive,
                       rest.unquickened + b[o] * o.stats.unquickened)
            ELSE rest

CoverSum(b, p) == SumOver(b, DOMAIN b, p)

RECURSIVE BagSizeOver(_, _)
BagSizeOver(b, S) ==
    IF S = {} THEN 0
    ELSE LET o == CHOOSE x \in S : TRUE IN b[o] + BagSizeOver(b, S \ {o})

BagSize(b) == BagSizeOver(b, DOMAIN b)

Boundaries(cs) ==
    {cs[i].start : i \in 1..Len(cs)} \cup {cs[i].stop : i \in 1..Len(cs)}

\* C1: when parse has returned, the chunks in emitted order tile the document:
\* the first starts at FIRST_POSTION, the last stops at LAST_POSITION, every
\* chunk has start < stop, each starts where the one before it stops, and with
\* no observation there is the one chunk [FIRST_POSTION, LAST_POSITION) of
\* zero Stats.
C1_Tiling ==
    pc = "parsed" =>
        /\ Len(emitted) >= 1
        /\ emitted[1].start = FIRST_POSTION
        /\ emitted[Len(emitted)].stop = LAST_POSITION
        /\ \A i \in 1..Len(emitted) : PosLess(emitted[i].start, emitted[i].stop)
        /\ \A i \in 2..Len(emitted) : emitted[i].start = emitted[i - 1].stop
        /\ (obs = EmptyBag =>
               emitted = <<SourceChunk(FIRST_POSTION, LAST_POSITION, StatsZero)>>)

\* C2: every emitted chunk carries, for every probe coordinate p of the
\* document that it contains, the sum of the Stats of the scored observations
\* whose span contains p; and when parse has returned every probe of the
\* document lies in exactly one chunk.
C2_Coverage ==
    /\ \A i \in 1..Len(emitted) : \A p \in Probes :
          (PosLeq(FIRST_POSTION, p) /\ Contains(emitted[i].start, emitted[i].stop, p))
              => emitted[i].stats = CoverSum(obs, p)
    /\ pc = "parsed" =>
          \A p \in Probes : PosLeq(FIRST_POSTION, p) =>
              Cardinality({i \in 1..Len(emitted) :
                              Contains(emitted[i].start, emitted[i].stop, p)}) = 1

\* Two observations overlap and a chunk carries the Stats of both.
C2_Witness ==
    /\ pc = "parsed"
    /\ \E i \in 1..Len(emitted) :
          /\ emitted[i].stats.specialized + emitted[i].stats.adaptive
                + emitted[i].stats.unquickened = 2
          /\ PosLeq(FIRST_POSTION, emitted[i].start)

C8_SkipFrame ==
    [][ (nDecoded' = nDecoded + 1) =>
           /\ ~resolved' =>
                 (events' = events /\ obs' = obs /\ previous' = instruction')
           /\ (resolved' /\ ~resolved /\ nDecoded >= 1) =>
                 stats' = score_instruction(instruction'[1], instruction) ]_vars

\* An unresolved superinstruction was skipped and the LOAD_CONST after it,
\* not a jump target, scored specialized.
C8_Witness ==
    /\ nDecoded = 2
    /\ resolved
    /\ BagSize(obs) = 1
    /\ instruction = <<Instruction(LOAD_CONST, FALSE)>>
    /\ stats = Stats(1, 0, 0)

\* The unit yielded by walk_code just before unit u.
UnitBefore(u) ==
    LET w == walk_code(code)
        i == CHOOSE j \in 1..Len(w) : w[j] = u
    IN w[i - 1]

EscapeChar(c) ==
    CASE c = "&" -> <<"&", "a", "m", "p", ";">>
      [] c = "<" -> <<"&", "l", "t", ";">>
      [] c = ">" -> <<"&", "g", "t", ";">>
      [] c = "\"" -> <<"&", "q", "u", "o", "t", ";">>
      [] c = "'" -> <<"&", "#", "x", "2", "7", ";">>
      [] OTHER -> <<c>>

RECURSIVE HtmlEscape(_)
HtmlEscape(source) ==
    IF source = <<>> THEN <<>>
    ELSE EscapeChar(Head(source)) \o HtmlEscape(Tail(source))

\* The values of HTMLWriter._color for the Stats that occur with up to three
\* overlapping observations, computed by the program (colorsys.hls_to_rgb and
\* the truncation to two hexadecimal digits included).
ColorTableGreen ==
       <<0,1,0>> :> "#ff0000" @@ <<0,1,1>> :> "#ff0000" @@ <<0,1,2>> :> "#fe5555" @@
       <<0,2,0>> :> "#ff0000" @@ <<0,2,1>> :> "#ff0000" @@ <<0,3,0>> :> "#ff0000" @@
       <<1,0,0>> :> "#00ff00" @@ <<1,0,1>> :> "#00ff00" @@ <<1,0,2>> :> "#55fe55" @@
       <<1,1,0>> :> "#feff00" @@ <<1,1,1>> :> "#feff00" @@ <<1,2,0>> :> "#ffaa00" @@
       <<2,0,0>> :> "#00ff00" @@ <<2,0,1>> :> "#00ff00" @@ <<2,1,0>> :> "#a9ff00" @@
       <<3,0,0>> :> "#00ff00"

ColorTableBlue ==
       <<0,1,0>> :> "#ff0000" @@ <<0,1,1>> :> "#ff0000" @@ <<0,1,2>> :> "#fe5555" @@
       <<0,2,0>> :> "#ff0000" @@ <<0,2,1>> :> "#ff0000" @@ <<0,3,0>> :> "#ff0000" @@
       <<1,0,0>> :> "#0000ff" @@ <<1,0,1>> :> "#0000ff" @@ <<1,0,2>> :> "#5555fe" @@
       <<1,1,0>> :> "#ff00fe" @@ <<1,1,1>> :> "#ff00fe" @@ <<1,2,0>> :> "#ff00a9" @@
       <<2,0,0>> :> "#0000ff" @@ <<2,0,1>> :> "#0000ff" @@ <<2,1,0>> :> "#aa00ff" @@
       <<3,0,0>> :> "#0000ff"

\* HTMLWriter._color
Color(st, blue) ==
    IF st.specialized + st.adaptive = 0 THEN "#ffffff"
    ELSE IF blue
         THEN ColorTableBlue[<<st.specialized, st.adaptive, st.unquickened>>]
         ELSE ColorTableGreen[<<st.specialized, st.adaptive, st.unquickened>>]

\* HTMLWriter.__init__: the writer is [blue, dark, parts].
NewWriter(blue, dark) ==
    [blue |-> blue,
     dark |-> dark,
     parts |-> << <<"<!doctype html>">>,
                  <<"<html>">>,
                  <<"<body style='background-color:",
                    IF dark THEN "black" ELSE "white",
                    ";color:",
                    IF dark THEN "white" ELSE "black",
                    "'>">>,
                  <<"<pre>">> >>]

\* HTMLWriter.add
WriterAdd(w, source, st) ==
    LET color == Color(st, w.blue)
        attribute == IF w.dark THEN "color" ELSE "background-color"
        escaped == HtmlEscape(source)
        part == IF color # "#ffffff"
                THEN <<"<span style='", attribute, ":", color, "'>">>
                     \o escaped \o <<"</span>">>
                ELSE escaped
    IN [w EXCEPT !.parts = Append(@, part)]

RECURSIVE Join(_)
\* "".join(parts)
Join(parts) == IF parts = <<>> THEN <<>> ELSE Head(parts) \o Join(Tail(parts))

\* HTMLWriter.emit: [out, writer]
WriterEmit(w) ==
    [out |-> Join(w.parts \o << <<"</pre>">>, <<"</body>">>, <<"</html>">> >>),
     writer |-> [w EXCEPT !.parts = <<>>]]


\* ------------------------------------------------------------------- view
\* The characters of source files: a letter, a character html.escape rewrites,
\* a character of two UTF-8 bytes, the line end.
Chars == {"a", "&", "é", "\n"}

Utf8Len(c) == IF c = "é" THEN 2 ELSE 1

Texts == UNION {[1..n -> Chars] : n \in 0..MaxText}

RECURSIVE SplitLines(_, _)
\* Iterating a text file: the lines, each with its "\n" (the last may lack it).
\* cur is the line collected so far.
SplitLines(text, cur) ==
    IF text = <<>> THEN (IF cur = <<>> THEN <<>> ELSE <<cur>>)
    ELSE IF Head(text) = "\n"
         THEN <<Append(cur, "\n")>> \o SplitLines(Tail(text), <<>>)
         ELSE SplitLines(Tail(text), Append(cur, Head(text)))

Lines(text) == SplitLines(text, <<>>)

RECURSIVE ByteLen(_)
ByteLen(str) == IF str = <<>> THEN 0 ELSE Utf8Len(Head(str)) + ByteLen(Tail(str))

\* The characters of a line before its "\n".
Content(line) ==
    IF line # <<>> /\ line[Len(line)] = "\n" THEN SubSeq(line, 1, Len(line) - 1) ELSE line

\* The (line, column) pairs the compiler gives for positions in the text:
\* columns are UTF-8 byte offsets of character boundaries of the line.
TextCoordinates(text) ==
    LET ls == Lines(text)
    IN UNION { { <<l, ByteLen(SubSeq(Content(ls[l]), 1, i))>> :
                    i \in 0..Len(Content(ls[l])) } : l \in 1..Len(ls) }

TextPositions(text) ==
    LET C == TextCoordinates(text)
    IN { <<x[1][1], x[2][1], x[1][2], x[2][2]>> :
            x \in {y \in C \X C : PosLeq(y[1], y[2])} }

\* The instructions of the viewed module after its RESUME.
ViewInstructions == {Instruction(LOAD_CONST, FALSE), Instruction(BINARY_OP_ADD_INT, FALSE)}

RESUME == <<"RESUME">>

\* What dis.get_instructions and co_positions give for the units of a module
\* compiled from text, as [instruction, position]: the RESUME of the module,
\* then up to MaxViewInstr instructions at positions of the text.
Streams(text) ==
    { <<[instruction |-> Instruction(RESUME, FALSE), position |-> ModuleResumePosition]>> \o t :
        t \in UNION { [1..n -> [instruction : ViewInstructions,
                                position : TextPositions(text)]] : n \in 0..MaxViewInstr } }

RECURSIVE ParseLoop(_, _)
\* The loops of parse over a whole stream, from the locals st.
ParseLoop(st, stream) ==
    IF stream = <<>> THEN st
    ELSE ParseLoop(ParseStep(st, Head(stream).instruction, Head(stream).position),
                   Tail(stream))

RECURSIVE PrefixSum(_, _, _)
\* The running stats of the sweep after the first i keys.
PrefixSum(d, keys, i) ==
    IF i = 0 THEN StatsZero ELSE StatsAdd(PrefixSum(d, keys, i - 1), d[keys[i]])

\* Everything the sweep of parse yields for events d.
Sweep(d) ==
    LET keys == SortedItems(d)
    IN [i \in 1..(Len(keys) - 1) |->
           SourceChunk(keys[i], keys[i + 1], PrefixSum(d, keys, i))]

\* list(parse(code)) for a code object that decodes to stream.
Parse(stream) ==
    Sweep(ParseLoop([events |-> InitialEvents, previous |-> None, stats |-> StatsZero],
                    stream).events)

ViewInit ==
    /\ file \in Texts
    /\ chunks = <<>>
    /\ parserIdx = 0
    /\ chunk = None
    /\ lineno = 0
    /\ col_offset = 0
    /\ group = <<>>
    /\ writer = None
    /\ page = None
    /\ runs = <<>>
    /\ groupAt = <<>>

\* view up to the loops: the writer, parse(code) and the first next(parser).
\* blue and dark, and what the unit found for path decodes to, are inputs.
ViewOpen ==
    /\ UNCHANGED <<parseLocals, mainVars>>
    /\ pc = "view"
    /\ \E blue \in BOOLEAN, dark \in BOOLEAN : writer' = <<NewWriter(blue, dark)>>
    /\ \E stream \in Streams(file) : chunks' = Parse(stream)
    /\ chunk' = <<chunks'[1]>>
    /\ parserIdx' = 1
    /\ group' = <<>>
    /\ groupAt' = <<>>
    /\ lineno' = 1
    /\ col_offset' = 0
    /\ pc' = "view_loop"
    /\ UNCHANGED <<file, page, runs>>

\* (lineno, col_offset) after the character at (lineno, col_offset).
NextLineno == IF col_offset + 1 < Len(Lines(file)[lineno]) THEN lineno ELSE lineno + 1
NextCol == IF col_offset + 1 < Len(Lines(file)[lineno]) THEN col_offset + 1 ELSE 0

\* One turn of the inner loop of view, for the character at (lineno, col_offset).
ViewChar ==
    /\ UNCHANGED <<parseLocals, mainVars>>
    /\ pc = "view_loop"
    /\ lineno <= Len(Lines(file))
    /\ LET character == Lines(file)[lineno][col_offset + 1]
       IN IF chunk[1].stop = <<lineno, col_offset>>
          THEN /\ writer' = <<WriterAdd(writer[1], group, chunk[1].stats)>>
               /\ runs' = Append(runs, [source |-> group, stats |-> chunk[1].stats,
                                        at |-> groupAt])
               /\ IF parserIdx >= Len(chunks)
                  THEN \* next(parser) raises StopIteration
                       /\ pc' = "StopIteration"
                       /\ group' = <<>>
                       /\ groupAt' = <<>>
                       /\ UNCHANGED <<chunk, parserIdx, lineno, col_offset>>
                  ELSE /\ chunk' = <<chunks[parserIdx + 1]>>
                       /\ parserIdx' = parserIdx + 1
                       /\ IF chunk'[1].start = <<lineno, col_offset>>
                          THEN /\ group' = <<character>>
                               /\ groupAt' = << <<lineno, col_offset>> >>
                               /\ lineno' = NextLineno
                               /\ col_offset' = NextCol
                               /\ pc' = pc
                          ELSE \* the assert fails
                               /\ pc' = "AssertionError"
                               /\ group' = <<>>
                               /\ groupAt' = <<>>
                               /\ UNCHANGED <<lineno, col_offset>>
          ELSE /\ group' = Append(group, character)
               /\ groupAt' = Append(groupAt, <<lineno, col_offset>>)
               /\ lineno' = NextLineno
               /\ col_offset' = NextCol
               /\ UNCHANGED <<pc, writer, runs, chunk, parserIdx>>
    /\ UNCHANGED <<file, chunks, page>>

\* A variant of the end of view without the add of the last group.
ViewFinish_NoLastAdd ==
    /\ UNCHANGED <<parseLocals, mainVars>>
    /\ pc = "view_loop"
    /\ lineno > Len(Lines(file))
    /\ LET e == WriterEmit(writer[1])
       IN /\ writer' = <<e.writer>>
          /\ page' = <<e.out>>
    /\ pc' = "viewed"
    /\ UNCHANGED <<file, chunks, parserIdx, chunk, lineno, col_offset, group,
                   groupAt, runs>>

\* The file is exhausted: the last group is added, and the page is emitted
\* and given to browse.
ViewFinish ==
    /\ UNCHANGED <<parseLocals, mainVars>>
    /\ pc = "view_loop"
    /\ lineno > Len(Lines(file))
    /\ LET w == WriterAdd(writer[1], group, chunk[1].stats)
           e == WriterEmit(w)
       IN /\ writer' = <<e.writer>>
          /\ page' = <<e.out>>
    /\ runs' = Append(runs, [source |-> group, stats |-> chunk[1].stats, at |-> groupAt])
    /\ pc' = "viewed"
    /\ UNCHANGED <<file, chunks, parserIdx, chunk, lineno, col_offset, group, groupAt>>

ViewNext ==
    \/ ViewOpen
    \/ ViewChar
    \/ ViewFinish


\* ------------------------------------------------------ capture and lookup
\* The names a file goes by, and the file (its identity) behind each name;
\* missing.py does not exist.
FileNames == {"main.py", "./main.py", "other.py", "__main__.py", "missing.py"}

FileId(name) ==
    CASE name \in {"main.py", "./main.py"} -> 1
      [] name = "other.py" -> 2
      [] name = "__main__.py" -> 3
      [] OTHER -> 0

Exists(name) == FileId(name) # 0

\* path.samefile(filename): <<TRUE>> or <<FALSE>>, or None when it raises
\* FileNotFoundError.
SameFile(p, filename) ==
    IF Exists(p) /\ Exists(filename) THEN <<FileId(p) = FileId(filename)>> ELSE None

CodeObject(co_name, co_filename, version) ==
    [co_name |-> co_name, co_filename |-> co_filename, version |-> version]

\* audit_imports: CODE after the hook has seen event with args = [code].
audit_imports(registry, event, c) ==
    IF event = "exec" /\ c.co_name = "<module>" THEN registry \cup {c} ELSE registry

\* get_code_for_path: everything the call may return, each as <<code>>, or
\* None.  A set is iterated in an order the program does not choose, so any
\* matching code object may be the first.
get_code_for_path(registry, p) ==
    LET m == {c \in registry : SameFile(p, c.co_filename) = <<TRUE>>}
    IN IF m = {} THEN {None} ELSE {<<c>> : c \in m}

\* pathlib.Path().glob("*.py") in the working directory, in some order.
GlobMatches == <<"main.py", "other.py">>

\* main_file_for_module(source)
main_file_for_module(source) ==
    IF source = "main" THEN <<"main.py">> ELSE None

\* The command lines: -c source, -m module, file; with or without --targets.
ArgsSet ==
    [kind : {"command"}, source : {"__main__.py"}, targets : {None, <<"*.py">>}]
    \cup [kind : {"module"}, source : {"main", "nomodule"}, targets : {None, <<"*.py">>}]
    \cup [kind : {"file"}, source : {"main.py", "./main.py", "missing.py"},
          targets : {None, <<"*.py">>}]

\* The file runpy runs for args.
TargetFile(a) ==
    IF a.kind = "module" THEN main_file_for_module(a.source) ELSE <<a.source>>

MainInit ==
    /\ CODE = {}
    /\ args \in ArgsSet
    /\ caught = <<>>
    /\ path = None
    /\ paths = <<>>
    /\ viewIdx = 0
    /\ viewed = <<>>
    /\ raised = None
    /\ found = None
    /\ foundPath = None
    /\ captureLog = <<>>
    /\ nExec = 0

\* runpy cannot load the target (no such file or module, or a SyntaxError):
\* it raises before any exec, and catch_exceptions gathers the exception.
TargetLoadFails ==
    /\ UNCHANGED <<parseLocals, viewVars>>
    /\ pc = "main"
    /\ \E e \in {"FileNotFoundError", "ImportError", "SyntaxError"} :
          /\ e = "FileNotFoundError" =>
                (args.kind = "file" /\ ~Exists(args.source))
          /\ e = "ImportError" =>
                (args.kind = "module" /\ main_file_for_module(args.source) = None)
          /\ e = "SyntaxError" =>
                (TargetFile(args) # None /\ Exists(TargetFile(args)[1]))
          /\ caught' = <<e>>
    /\ pc' = "ran"
    /\ UNCHANGED <<CODE, args, path, paths, viewIdx, viewed, raised, found,
                   foundPath, captureLog, nExec>>

\* runpy compiles the target and executes it: the hook sees the exec.
TargetStarts ==
    /\ UNCHANGED <<parseLocals, viewVars>>
    /\ pc = "main"
    /\ TargetFile(args) # None
    /\ Exists(TargetFile(args)[1])
    /\ \E v \in 1..MaxVersion :
          LET c == CodeObject("<module>", TargetFile(args)[1], v)
          IN /\ CODE' = audit_imports(CODE, "exec", c)
             /\ captureLog' = Append(captureLog, c)
    /\ pc' = "target"
    /\ UNCHANGED <<args, caught, path, paths, viewIdx, viewed, raised, found,
                   foundPath, nExec>>

\* The running target raises an audit event: an exec of the code of a file
\* (its own again, or another; at top level or not), or some other event.
TargetEvent ==
    /\ UNCHANGED <<parseLocals, viewVars>>
    /\ pc = "target"
    /\ nExec < MaxExec
    /\ \E event \in {"exec", "import"}, n \in {"<module>", "f"},
          f \in {"main.py", "./main.py", "other.py", "__main__.py"}, v \in 1..MaxVersion :
          LET c == CodeObject(n, f, v)
          IN /\ CODE' = audit_imports(CODE, event, c)
             /\ captureLog' = IF event = "exec" /\ n = "<module>"
                              THEN Append(captureLog, c) ELSE captureLog
    /\ nExec' = nExec + 1
    /\ UNCHANGED <<pc, args, caught, path, paths, viewIdx, viewed, raised,
                   found, foundPath>>

\* The target raises: catch_exceptions gathers the exception.
TargetRaises ==
    /\ UNCHANGED <<parseLocals, viewVars>>
    /\ pc = "target"
    /\ caught' = <<"E">>
    /\ pc' = "ran"
    /\ UNCHANGED <<CODE, args, path, paths, viewIdx, viewed, raised, found,
                   foundPath, captureLog, nExec>>

TargetReturns ==
    /\ UNCHANGED <<parseLocals, viewVars>>
    /\ pc = "target"
    /\ pc' = "ran"
    /\ UNCHANGED <<CODE, args, caught, path, paths, viewIdx, viewed, raised,
                   found, foundPath, captureLog, nExec>>

RECURSIVE Captured(_, _)
\* The matches of the glob for which get_code_for_path is not None.
Captured(registry, matches) ==
    IF matches = <<>> THEN <<>>
    ELSE (IF get_code_for_path(registry, Head(matches)) # {None}
          THEN <<Head(matches)>> ELSE <<>>)
         \o Captured(registry, Tail(matches))

\* main after the run: path, then paths.
MainCollect ==
    /\ UNCHANGED <<parseLocals, viewVars>>
    /\ pc = "ran"
    /\ path' = TargetFile(args)
    /\ paths' = IF args.targets # None THEN Captured(CODE, GlobMatches)
                ELSE IF path' # None THEN path'
                ELSE <<>>
    /\ viewIdx' = 1
    /\ pc' = "views"
    /\ UNCHANGED <<CODE, args, caught, viewed, raised, found, foundPath,
                   captureLog, nExec>>

\* view(path) for the next of paths: the lookup, the assert, the rendering.
MainView ==
    /\ UNCHANGED <<parseLocals, viewVars>>
    /\ pc = "views"
    /\ viewIdx <= Len(paths)
    /\ \E c \in get_code_for_path(CODE, paths[viewIdx]) :
          /\ found' = c
          /\ foundPath' = <<paths[viewIdx]>>
          /\ IF c = None
             THEN \* assert code is not None
                  /\ raised' = <<"AssertionError">>
                  /\ pc' = "main_end"
                  /\ UNCHANGED <<viewed, viewIdx>>
             ELSE /\ viewed' = Append(viewed, paths[viewIdx])
                  /\ viewIdx' = viewIdx + 1
                  /\ UNCHANGED <<pc, raised>>
    /\ UNCHANGED <<CODE, args, caught, path, paths, captureLog, nExec>>

\* if caught: raise caught[0] from None
MainEnd ==
    /\ UNCHANGED <<parseLocals, viewVars>>
    /\ pc = "views"
    /\ viewIdx > Len(paths)
    /\ raised' = IF caught # <<>> THEN <<caught[1]>> ELSE None
    /\ pc' = "main_end"
    /\ UNCHANGED <<CODE, args, caught, path, paths, viewIdx, viewed, found,
                   foundPath, captureLog, nExec>>

MainNext ==
    \/ TargetLoadFails
    \/ TargetStarts
    \/ TargetEvent
    \/ TargetRaises
    \/ TargetReturns
    \/ MainCollect
    \/ MainView
    \/ MainEnd

\* ------------------------------------------------------- properties of view
\* The pieces of a page that are markup and stand alone.
MarkupPieces ==
    {"<!doctype html>", "<html>", "<pre>", "</pre>", "</body>", "</html>", "</span>"}

RECURSIVE StripMarkup(_)
\* The pieces of a page or of parts that are text: what is left without the
\* markup (an opening tag with a style is five pieces).
StripMarkup(str) ==
    IF str = <<>> THEN <<>>
    ELSE IF Head(str) \in {"<span style='", "<body style='background-color:"}
         THEN StripMarkup(SubSeq(str, 6, Len(str)))
         ELSE IF Head(str) \in MarkupPieces
              THEN StripMarkup(Tail(str))
              ELSE <<Head(str)>> \o StripMarkup(Tail(str))

StartsWith(str, prefix) ==
    Len(str) >= Len(prefix) /\ SubSeq(str, 1, Len(prefix)) = prefix

RECURSIVE HtmlUnescape(_)
\* html.unescape on the character references html.escape writes.
HtmlUnescape(str) ==
    IF str = <<>> THEN <<>>
    ELSE IF StartsWith(str, <<"&", "a", "m", "p", ";">>)
         THEN <<"&">> \o HtmlUnescape(SubSeq(str, 6, Len(str)))
    ELSE IF StartsWith(str, <<"&", "l", "t", ";">>)
         THEN <<"<">> \o HtmlUnescape(SubSeq(str, 5, Len(str)))
    ELSE IF StartsWith(str, <<"&", "g", "t", ";">>)
         THEN <<">">> \o HtmlUnescape(SubSeq(str, 5, Len(str)))
    ELSE IF StartsWith(str, <<"&", "q", "u", "o", "t", ";">>)
         THEN <<"\"">> \o HtmlUnescape(SubSeq(str, 7, Len(str)))
    ELSE IF StartsWith(str, <<"&", "#", "x", "2", "7", ";">>)
         THEN <<"'">> \o HtmlUnescape(SubSeq(str, 7, Len(str)))
    ELSE <<Head(str)>> \o HtmlUnescape(Tail(str))

RECURSIVE JoinSources(_)
\* The sources given to writer.add, in order, as one text.
JoinSources(rs) ==
    IF rs = <<>> THEN <<>> ELSE Head(rs).source \o JoinSources(Tail(rs))

\* How many characters of file the loops of view have gone through.
Consumed == Len(Join(SubSeq(Lines(file), 1, lineno - 1))) + col_offset

\* C3: view raises nothing; while it walks the file, the unescaped text of the
\* runs added so far followed by the group is the part of the source gone
\* through; at the end the sources given to writer.add, joined, and the
\* unescaped text of the page are the source text.
C3_TextFidelity ==
    /\ pc \notin {"StopIteration", "AssertionError"}
    /\ pc = "view_loop" =>
          /\ HtmlUnescape(StripMarkup(Join(writer[1].parts))) \o group
                = SubSeq(file, 1, Consumed)
          /\ JoinSources(runs) \o group = SubSeq(file, 1, Consumed)
    /\ pc = "viewed" =>
          /\ HtmlUnescape(StripMarkup(page[1])) = file
          /\ JoinSources(runs) = file

\* A page with a coloured run, an escaped character, and a last run that is
\* not empty.
C3_Witness ==
    /\ pc = "viewed"
    /\ Len(runs) >= 3
    /\ runs[Len(runs)].source # <<>>
    /\ \E i \in 1..Len(file) : file[i] = "&"
    /\ \E i \in 1..Len(page[1]) : page[1][i] = "<span style='"

\* The Stats of the chunk of cs that contains p.
ChunkStatsAt(cs, p) ==
    LET i == CHOOSE j \in 1..Len(cs) : Contains(cs[j].start, cs[j].stop, p)
    IN cs[i].stats

\* C9: view raises neither AssertionError nor StopIteration; every character
\* is added in a run that carries the Stats of the chunk containing its
\* (lineno, col_offset); and the chunk the loops are at contains the
\* characters of the group.
C9_Attribution ==
    /\ pc \notin {"StopIteration", "AssertionError"}
    /\ \A r \in 1..Len(runs) : \A k \in 1..Len(runs[r].at) :
          runs[r].stats = ChunkStatsAt(chunks, runs[r].at[k])
    /\ pc = "view_loop" =>
          \A k \in 1..Len(groupAt) :
              Contains(chunk[1].start, chunk[1].stop, groupAt[k])

\* ------------------------------------------------------- properties of main
\* C4: when the target raised, main ends by raising that exception, after
\* every requested view was rendered.
C4_DeferredException ==
    (pc = "main_end" /\ caught # <<>>) =>
        (raised = <<caught[1]>> /\ viewed = paths)

\* The captures of the file behind p, as indices of the log.
CapturesOf(p) ==
    {i \in 1..Len(captureLog) : SameFile(p, captureLog[i].co_filename) = <<TRUE>>}

\* C5: once the hook has recorded two units for the file of a path, the lookup
\* of that path returns the one recorded last.
C5_MostRecentWins ==
    (foundPath # None /\ Cardinality(CapturesOf(foundPath[1])) >= 2) =>
        LET last == CHOOSE i \in CapturesOf(foundPath[1]) :
                        \A j \in CapturesOf(foundPath[1]) : j <= i
        IN found = <<captureLog[last]>>

\* ------------------------------------------------------ score_instruction
\* The opnames by what they are in CPython 3.11, not by how they are spelt.
InFamily(opname) ==
    opname \in {BINARY_OP_ADAPTIVE, BINARY_OP_ADD_INT, LOAD_FAST__LOAD_CONST}
IsAdaptiveForm(opname) == opname = BINARY_OP_ADAPTIVE
IsFused(opname) == opname = LOAD_FAST__LOAD_CONST

\* C6: the score has one field 1 and the others 0: adaptive for the adaptive
\* form of the family, specialized for the rest of the family whatever the
\* previous instruction; outside the family, specialized after a fused
\* superinstruction when the instruction is not a jump target, else
\* unquickened.
C6_Score ==
    pc = "scored" =>
        LET i == instruction[1]
        IN /\ stats \in {Stats(1, 0, 0), Stats(0, 1, 0), Stats(0, 0, 1)}
           /\ (InFamily(i.opname) /\ IsAdaptiveForm(i.opname)) => stats = Stats(0, 1, 0)
           /\ (InFamily(i.opname) /\ ~IsAdaptiveForm(i.opname)) => stats = Stats(1, 0, 0)
           /\ InFamily(i.opname) =>
                 \A q \in {None} \cup {<<x>> : x \in Instructions} :
                     score_instruction(i, q) = stats
           /\ (~InFamily(i.opname) /\ previous # None /\ IsFused(previous[1].opname)
                 /\ ~i.is_jump_target) => stats = Stats(1, 0, 0)
           /\ (~InFamily(i.opname)
                 /\ (previous = None \/ ~IsFused(previous[1].opname) \/ i.is_jump_target))
                 => stats = Stats(0, 0, 1)

\* A jump target outside the family scored after a fused superinstruction.
C6_Witness ==
    /\ pc = "scored"
    /\ instruction = <<Instruction(LOAD_CONST, TRUE)>>
    /\ previous = <<Instruction(LOAD_FAST__LOAD_CONST, FALSE)>>
    /\ stats = Stats(0, 0, 1)

\* ----------------------------------------------------------- specifications
\* The variables of the parts of the program a specification does not run.
ParseIdle ==
    /\ code = Code("<module>", <<Obj>>)
    /\ walk = <<>>
    /\ child = None
    /\ nDecoded = 0
    /\ nChild = 0
    /\ previous = None
    /\ instruction = None
    /\ resolved = TRUE
    /\ events = InitialEvents
    /\ stats = StatsZero
    /\ idx = 0
    /\ emitted = <<>>
    /\ obs = EmptyBag
    /\ instrUnit = ""

ViewIdle == ViewInit /\ file = <<>>

MainIdle == MainInit /\ args = [kind |-> "file", source |-> "main.py", targets |-> None]

\* The instruction and the previous one are drawn; score is applied.
InitScore ==
    /\ pc = "score"
    /\ instruction \in {<<i>> : i \in Instructions}
    /\ previous \in {None} \cup {<<i>> : i \in Instructions}
    /\ code = Code("<module>", <<Obj>>)
    /\ walk = <<>>
    /\ child = None
    /\ nDecoded = 0
    /\ nChild = 0
    /\ resolved = TRUE
    /\ events = InitialEvents
    /\ stats = StatsZero
    /\ idx = 0
    /\ emitted = <<>>
    /\ obs = EmptyBag
    /\ instrUnit = ""
    /\ ViewIdle
    /\ MainIdle

Score ==
    /\ pc = "score"
    /\ stats' = score_instruction(instruction[1], previous)
    /\ pc' = "scored"
    /\ UNCHANGED <<code, walk, child, nDecoded, nChild, previous, instruction,
                   resolved, events, idx, emitted, obs, instrUnit>>
    /\ UNCHANGED <<viewVars, mainVars>>

InitParse == ParseInit /\ ViewIdle /\ MainIdle

InitView == pc = "view" /\ ParseIdle /\ ViewInit /\ MainIdle

InitMain == pc = "main" /\ ParseIdle /\ ViewIdle /\ MainInit

\* parse(code), turn by turn.
SpecParse == InitParse /\ [][ParseNext]_vars

\* view(path), character by character.
SpecView == InitView /\ [][ViewNext]_vars

\* main(), with the capture hook.
SpecMain == InitMain /\ [][MainNext]_vars


\* score_instruction on drawn arguments.
SpecScore == InitScore /\ [][Score]_vars

====
